---- MODULE Spec2Model ----
(***************************************************************************)
(* Model of the Cryptet signal scraper (src/main.py): the card parser, the *)
(* fingerprint, the dedup filter, the JSON state store, the scrape cycle,  *)
(* the loop of start() with its logging, and the exit of the process.      *)
(*                                                                         *)
(* Text is modelled as a sequence of characters (one-character strings;    *)
(* "uuml"/"Uuml" stand for the letters u-umlaut), so that substring tests, *)
(* lower(), upper(), strip(), replace() and the price clean-up are         *)
(* computed the way the Python code computes them.  A float is modelled by *)
(* its value in units of 1/PriceScale.  A timestamp (isoformat string) is  *)
(* <<minute, second>>; the empty string "" is <<>>; timestamp[:16] keeps   *)
(* the minute.                                                             *)
(***************************************************************************)
EXTENDS Integers, Sequences, FiniteSets, TLC

VARIABLES
    clock,        \* datetime.now(): <<minute, second>>
    card,         \* parser development: the card under test
    parsed,       \* result of parse_signal_card (<<>> is None); in a cycle: of extract_signals
    pstep,        \* parser development: "input", "parsed", "saved"
    stage,        \* position of scrape_cycle: "idle", "save_current", "save_status", "add_ids"
    fh,           \* the file handle of the _write_json in progress: "closed", "open"
    cards,        \* two-pass development: the card set fed through the pipeline twice
    new_signals,  \* new_signals of the most recent cycle
    files,        \* signals/current.json, processed.json, status.json
    atStart,      \* history: files when the most recent cycle started
    outcome,      \* history: how the most recent cycle ended
    failedAt,     \* history: the stage in which the most recent failure was raised
    evicted,      \* history: the most recent add_processed_ids cut the list to the cap
    observed,     \* what the external reader got on its most recent read: "complete", "partial"
    inserted,     \* ledger, two-pass developments: the ids passed to add_processed_ids, in order
    slept,        \* the wait between two cycles is over (start, lines 203-206)
    run,          \* position of start(): "setup", "loop", "backoff"; once it has ended,
                  \* "return" or the exception it propagated ("KeyboardInterrupt")
    driver,       \* self.driver: "none", "session" (acquired), "quit" (released)
    log           \* the records logged at INFO or above since the most recent cycle began

vars == <<clock, card, parsed, pstep, stage, fh, cards, new_signals,
          files, atStart, outcome, failedAt, evicted, observed, inserted, slept,
          run, driver, log>>

(***************************************************************************)
(* Bounds of the model.                                                    *)
(***************************************************************************)
\* Cards per fetch.
MaxCards == 2
\* The ledger cap: 1000 in the code (src/main.py:118-119), scaled down.
LedgerCap == 3
\* Fingerprints one add_processed_ids call of the ledger development inserts.
MaxBatch == 2

\* The minutes and seconds of the clock.
Minutes == {0, 1}
Seconds == {0, 30}

(***************************************************************************)
(* Strings.                                                                *)
(***************************************************************************)
kw_terminiert ==
    <<"t", "e", "r", "m", "i", "n", "i", "e", "r", "t">>
kw_terminated ==
    <<"t", "e", "r", "m", "i", "n", "a", "t", "e", "d">>
kw_ausgefuehrt ==
    <<"a", "u", "s", "g", "e", "f", "uuml", "h", "r", "t">>
kw_executed ==
    <<"e", "x", "e", "c", "u", "t", "e", "d">>
kw_filled ==
    <<"f", "i", "l", "l", "e", "d">>
kw_abgelaufen ==
    <<"a", "b", "g", "e", "l", "a", "u", "f", "e", "n">>
kw_expired ==
    <<"e", "x", "p", "i", "r", "e", "d">>
kw_geschlossen ==
    <<"g", "e", "s", "c", "h", "l", "o", "s", "s", "e", "n">>
kw_closed ==
    <<"c", "l", "o", "s", "e", "d">>
kw_abgebrochen ==
    <<"a", "b", "g", "e", "b", "r", "o", "c", "h", "e", "n">>
kw_cancelled ==
    <<"c", "a", "n", "c", "e", "l", "l", "e", "d">>
kw_canceled ==
    <<"c", "a", "n", "c", "e", "l", "e", "d">>
kw_kaufen ==
    <<"k", "a", "u", "f", "e", "n">>
kw_verkaufen ==
    <<"v", "e", "r", "k", "a", "u", "f", "e", "n">>
kw_buy ==
    <<"b", "u", "y">>
kw_sell ==
    <<"s", "e", "l", "l">>
kw_USDT ==
    <<"U", "S", "D", "T">>
BTCUSDT ==
    <<"B", "T", "C", "U", "S", "D", "T">>
ETHUSDT ==
    <<"E", "T", "H", "U", "S", "D", "T">>
XRPUSDT ==
    <<"X", "R", "P", "U", "S", "D", "T">>
ADAUSDT ==
    <<"A", "D", "A", "U", "S", "D", "T">>
SOLUSDT ==
    <<"S", "O", "L", "U", "S", "D", "T">>
DOGEUSDT ==
    <<"D", "O", "G", "E", "U", "S", "D", "T">>
LTCUSDT ==
    <<"L", "T", "C", "U", "S", "D", "T">>
TRXUSDT ==
    <<"T", "R", "X", "U", "S", "D", "T">>
LINKUSDT ==
    <<"L", "I", "N", "K", "U", "S", "D", "T">>
lower_char(c) ==
    CASE c = "A" -> "a"
      [] c = "B" -> "b"
      [] c = "C" -> "c"
      [] c = "D" -> "d"
      [] c = "E" -> "e"
      [] c = "F" -> "f"
      [] c = "G" -> "g"
      [] c = "H" -> "h"
      [] c = "I" -> "i"
      [] c = "J" -> "j"
      [] c = "K" -> "k"
      [] c = "L" -> "l"
      [] c = "M" -> "m"
      [] c = "N" -> "n"
      [] c = "O" -> "o"
      [] c = "P" -> "p"
      [] c = "Q" -> "q"
      [] c = "R" -> "r"
      [] c = "S" -> "s"
      [] c = "T" -> "t"
      [] c = "U" -> "u"
      [] c = "V" -> "v"
      [] c = "W" -> "w"
      [] c = "X" -> "x"
      [] c = "Y" -> "y"
      [] c = "Z" -> "z"
      [] c = "Uuml" -> "uuml"
      [] OTHER -> c
upper_char(c) ==
    CASE c = "a" -> "A"
      [] c = "b" -> "B"
      [] c = "c" -> "C"
      [] c = "d" -> "D"
      [] c = "e" -> "E"
      [] c = "f" -> "F"
      [] c = "g" -> "G"
      [] c = "h" -> "H"
      [] c = "i" -> "I"
      [] c = "j" -> "J"
      [] c = "k" -> "K"
      [] c = "l" -> "L"
      [] c = "m" -> "M"
      [] c = "n" -> "N"
      [] c = "o" -> "O"
      [] c = "p" -> "P"
      [] c = "q" -> "Q"
      [] c = "r" -> "R"
      [] c = "s" -> "S"
      [] c = "t" -> "T"
      [] c = "u" -> "U"
      [] c = "v" -> "V"
      [] c = "w" -> "W"
      [] c = "x" -> "X"
      [] c = "y" -> "Y"
      [] c = "z" -> "Z"
      [] c = "uuml" -> "Uuml"
      [] OTHER -> c
link_btc ==
    <<"B", "T", "C", "/", "U", "S", "D", "T">>
link_btc_mixed ==
    <<"B", "t", "c", "/", "U", "S", "D", "T">>
link_btc_spaced ==
    <<" ", "B", "T", "C", "/", "U", "S", "D", "T", " ">>
link_eth ==
    <<"E", "T", "H", "/", "U", "S", "D", "T">>
link_xrp ==
    <<"X", "R", "P", "/", "U", "S", "D", "T">>
link_ada ==
    <<"A", "D", "A", "/", "U", "S", "D", "T">>
link_dot ==
    <<"D", "O", "T", "/", "U", "S", "D", "T">>
link_noslash ==
    <<"B", "T", "C", "U", "S", "D", "T">>
link_lower ==
    <<"b", "t", "c", "/", "u", "s", "d", "t">>
text_buy ==
    <<"K", "a", "u", "f", "e", "n", " ", "b", "e", "i">>
text_sell ==
    <<"V", "e", "r", "k", "a", "u", "f", "e", "n", " ", "b", "e", "i">>
text_both ==
    <<"K", "a", "u", "f", "e", "n", " ", "V", "e", "r", "k", "a", "u", "f", "e", "n">>
text_plain ==
    <<"v", "o", "r", " ", "1", " ", "S", "t", "u", "n", "d", "e">>
text_terminiert ==
    <<"v", "o", "r", " ", "1", " ", "S", "t", "u", "n", "d", "e", " ", "T", "e", "r", "m", "i", "n", "i", "e", "r", "t">>
text_abgebrochen_buy ==
    <<"A", "b", "g", "e", "b", "r", "o", "c", "h", "e", "n", " ", "K", "a", "u", "f", "e", "n", " ", "b", "e", "i">>
text_ausgefuehrt ==
    <<"A", "u", "s", "g", "e", "f", "uuml", "h", "r", "t", " ", "G", "e", "k", "a", "u", "f", "t", " ", "b", "e", "i">>
text_closed_sell ==
    <<"C", "L", "O", "S", "E", "D", " ", "V", "e", "r", "k", "a", "u", "f", "e", "n">>
class_plain ==
    <<"s", "i", "g", "n", "a", "l", "-", "c", "a", "r", "d">>
class_buy ==
    <<"s", "i", "g", "n", "a", "l", "-", "c", "a", "r", "d", " ", "b", "u", "y">>
class_sell ==
    <<"s", "i", "g", "n", "a", "l", "-", "c", "a", "r", "d", " ", "s", "e", "l", "l">>
class_filled ==
    <<"s", "i", "g", "n", "a", "l", "-", "c", "a", "r", "d", " ", "f", "i", "l", "l", "e", "d">>
class_buy_filled ==
    <<"s", "i", "g", "n", "a", "l", "-", "c", "a", "r", "d", " ", "B", "u", "y", " ", "F", "i", "l", "l", "e", "d">>
val_label ==
    <<"1", "h">>
val_106050 ==
    <<"1", "0", "6", "0", "5", "0">>
val_108000 ==
    <<"1", "0", "8", "0", "0", "0">>
val_104000 ==
    <<"1", "0", "4", "0", "0", "0">>
val_fmt ==
    <<"$", "1", "0", "6", ",", "0", "5", "0", ".", "5">>
val_08151 ==
    <<"0", ".", "8", "1", "5", "1">>
val_085 ==
    <<"0", ".", "8", "5">>
val_079 ==
    <<"0", ".", "7", "9">>
val_zero ==
    <<"0">>
val_zero_frac ==
    <<"0", ".", "0", "0">>
val_dots ==
    <<"1", ".", "2", ".", "3">>
val_neg ==
    <<"-", "5">>
val_na ==
    <<"n", "/", "a">>
val_500 ==
    <<"5", "0", "0">>
val_2500 ==
    <<"2", "5", "0", "0">>
val_50 ==
    <<"5", "0">>

Digits == {"0", "1", "2", "3", "4", "5", "6", "7", "8", "9"}

digit_value(c) ==
    CASE c = "0" -> 0 [] c = "1" -> 1 [] c = "2" -> 2 [] c = "3" -> 3
      [] c = "4" -> 4 [] c = "5" -> 5 [] c = "6" -> 6 [] c = "7" -> 7
      [] c = "8" -> 8 [] c = "9" -> 9

\* str.lower(), str.upper()
lower(s) == [i \in 1..Len(s) |-> lower_char(s[i])]
upper(s) == [i \in 1..Len(s) |-> upper_char(s[i])]

\* needle in hay
contains(hay, needle) ==
    \E i \in 1..(Len(hay) - Len(needle) + 1) :
        SubSeq(hay, i, i + Len(needle) - 1) = needle

\* the characters of s that are in keep, in order
RECURSIVE keep_chars(_, _)
keep_chars(s, keep) ==
    IF s = <<>> THEN <<>>
    ELSE IF Head(s) \in keep THEN <<Head(s)>> \o keep_chars(Tail(s), keep)
    ELSE keep_chars(Tail(s), keep)

\* s.replace(c, '') for a one-character c
remove_char(s, c) == keep_chars(s, {s[i] : i \in 1..Len(s)} \ {c})

count_char(s, c) == Cardinality({i \in 1..Len(s) : s[i] = c})

\* str.strip()
RECURSIVE lstrip(_)
lstrip(s) == IF s # <<>> /\ Head(s) = " " THEN lstrip(Tail(s)) ELSE s
RECURSIVE rstrip(_)
rstrip(s) == IF s # <<>> /\ s[Len(s)] = " " THEN rstrip(SubSeq(s, 1, Len(s) - 1)) ELSE s
strip(s) == rstrip(lstrip(s))

\* str.isdigit()
isdigit(s) == s # <<>> /\ \A i \in 1..Len(s) : s[i] \in Digits

\* int of a digit string ('' is 0)
RECURSIVE int_of(_)
int_of(s) == IF s = <<>> THEN 0 ELSE 10 * int_of(SubSeq(s, 1, Len(s) - 1)) + digit_value(s[Len(s)])

(***************************************************************************)
(* Signal (src/main.py:28-61).                                             *)
(***************************************************************************)
\* timestamp[:16]: the isoformat string up to the minute
minute_of(timestamp) == IF timestamp = <<>> THEN <<>> ELSE <<timestamp[1]>>

\* md5 of "symbol_direction_entry_timestamp[:16]", first 12 hex digits; the hash
\* is modelled as injective on the data string, the data string by its four parts.
generate_id(symbol, direction, entry_price, timestamp) ==
    <<symbol, direction, entry_price, minute_of(timestamp)>>

Signal(symbol, direction, entry_price, take_profit, stop_loss, timestamp) ==
    [ signal_id   |-> generate_id(symbol, direction, entry_price, timestamp),
      symbol      |-> symbol,
      direction   |-> direction,
      entry_price |-> entry_price,
      take_profit |-> take_profit,
      stop_loss   |-> stop_loss,
      timestamp   |-> timestamp ]

to_dict(signal) ==
    [ signal_id   |-> signal.signal_id,
      symbol      |-> signal.symbol,
      direction   |-> signal.direction,
      entry_price |-> signal.entry_price,
      take_profit |-> signal.take_profit,
      stop_loss   |-> signal.stop_loss,
      timestamp   |-> signal.timestamp,
      processed   |-> FALSE ]

(***************************************************************************)
(* parse_signal_card (src/main.py:287-388).  A card is                     *)
(*   [link: <<>> or <<text>>, text, class, values: sequence of texts]:     *)
(* the symbol link (absent: find_element raises NoSuchElementException),   *)
(* the card's visible text, its class attribute and the texts of its       *)
(* .signal-value elements.  The result is <<>> (None) or <<signal>>.       *)
(***************************************************************************)
termination_keywords ==
    { kw_terminiert, kw_terminated, kw_ausgefuehrt, kw_executed, kw_filled,
      kw_abgelaufen, kw_expired, kw_geschlossen, kw_closed, kw_abgebrochen,
      kw_cancelled, kw_canceled }

PriceScale == 10^4

\* float(clean_price) for a string of digits and dots: <<>> is ValueError.
\* Fraction digits beyond the scale are cut (no input of the model has any).
float_of(s) ==
    IF count_char(s, ".") > 1 THEN <<>>
    ELSE IF count_char(s, ".") = 0 THEN << int_of(s) * PriceScale >>
    ELSE LET p    == CHOOSE i \in 1..Len(s) : s[i] = "."
             ip   == SubSeq(s, 1, p - 1)
             fr   == SubSeq(s, p + 1, Len(s))
             frac == SubSeq(fr \o <<"0", "0", "0", "0">>, 1, 4)
         IN  << int_of(ip) * PriceScale + int_of(frac) >>

\* lines 358-365: the price of one .signal-value text, <<>> when the card is rejected
parse_price(text) ==
    LET clean_price == remove_char(keep_chars(strip(text), Digits \cup {".", ","}), ",")
    IN  IF clean_price # <<>> /\ isdigit(remove_char(clean_price, "."))
        THEN float_of(clean_price)
        ELSE <<>>

\* is_termination without the class test of line 312
is_termination_text_only(card_text, card_classes) ==
    \E keyword \in termination_keywords : contains(card_text, keyword)

\* lines 304-314
is_termination(card_text, card_classes) ==
    \/ \E keyword \in termination_keywords : contains(card_text, keyword)
    \/ contains(card_classes, kw_filled)

\* lines 328-340: "NONE" is the return None of line 340
direction_of(card_text, card_classes) ==
    IF contains(card_classes, kw_buy) THEN "LONG"
    ELSE IF contains(card_classes, kw_sell) THEN "SHORT"
    ELSE IF contains(card_text, kw_kaufen) /\ ~contains(card_text, kw_verkaufen) THEN "LONG"
    ELSE IF contains(card_text, kw_verkaufen) /\ ~contains(card_text, kw_kaufen) THEN "SHORT"
    ELSE "NONE"

BtcFloor == 1000
EthFloor == 100

\* plausible without the positivity test of lines 375-376
plausible_floors_only(symbol, entry_price, take_profit, stop_loss) ==
    /\ ~(symbol = BTCUSDT /\ entry_price < BtcFloor * PriceScale)
    /\ ~(symbol = ETHUSDT /\ entry_price < EthFloor * PriceScale)

\* lines 374-382
plausible(symbol, entry_price, take_profit, stop_loss) ==
    /\ ~(entry_price <= 0 \/ take_profit <= 0 \/ stop_loss <= 0)
    /\ ~(symbol = BTCUSDT /\ entry_price < BtcFloor * PriceScale)
    /\ ~(symbol = ETHUSDT /\ entry_price < EthFloor * PriceScale)

\* lines 318-325
termination_signal(symbol, timestamp) ==
    Signal(symbol, "TERMINATE", 0, 0, 0, timestamp)

\* lines 348-384
priced_signal(symbol, direction, values, timestamp) ==
    IF Len(values) < 6 THEN <<>>
    ELSE LET entry == parse_price(values[4])
             tp    == parse_price(values[5])
             sl    == parse_price(values[6])
         IN  IF entry = <<>> \/ tp = <<>> \/ sl = <<>> THEN <<>>
             ELSE IF ~plausible(symbol, entry[1], tp[1], sl[1]) THEN <<>>
             ELSE << Signal(symbol, direction, entry[1], tp[1], sl[1], timestamp) >>

parse_signal_card(c, now) ==
    IF c.link = <<>> THEN <<>>
    ELSE LET symbol_text == strip(c.link[1]) IN
         IF ~contains(symbol_text, <<"/">>) \/ ~contains(symbol_text, kw_USDT) THEN <<>>
         ELSE LET symbol       == upper(remove_char(symbol_text, "/"))
                  card_text    == lower(c.text)
                  card_classes == lower(c.class)
              IN  IF is_termination(card_text, card_classes)
                  THEN << termination_signal(symbol, now) >>
                  ELSE LET direction == direction_of(card_text, card_classes) IN
                       IF direction = "NONE" THEN <<>>
                       ELSE priced_signal(symbol, direction, c.values, now)

(***************************************************************************)
(* SignalStorage (src/main.py:63-154).  A file is [complete, data]: with   *)
(* complete = FALSE only a proper prefix of the JSON text of data is on    *)
(* disk (open(filepath, 'w') has truncated the file and json.dump has not  *)
(* finished), which json.load rejects.                                     *)
(***************************************************************************)
FileNames == {"current", "processed", "status"}

\* _init_files, lines 75-92
init_files ==
    [ f \in FileNames |->
        [ complete |-> TRUE,
          data |-> CASE f = "current" ->
                        [ signals |-> <<>>, terminated_signals |-> <<>>, last_update |-> <<>> ]
                     [] f = "processed" ->
                        [ processed_ids |-> <<>> ]
                     [] f = "status" ->
                        [ last_scrape |-> <<>>, active_signals |-> 0, terminated_signals |-> 0 ] ] ]

\* _read_json, lines 94-100: <<>> is the {} returned on JSONDecodeError
read_json(file) == IF file.complete THEN file.data ELSE <<>>

\* get_processed_ids, lines 107-110, of the ledger file
get_processed_ids(file) ==
    LET data == read_json(file)
    IN  IF "processed_ids" \in DOMAIN data THEN data.processed_ids ELSE <<>>

Range(s) == { s[i] : i \in 1..Len(s) }

\* list(set): the elements of S in each order the set's iteration can give
RECURSIVE orderings(_)
orderings(S) ==
    IF S = {} THEN { <<>> }
    ELSE UNION { { <<x>> \o p : p \in orderings(S \ {x}) } : x \in S }

\* new_ids[-1000:], line 119
last_ids(ids, cap) == SubSeq(ids, Len(ids) - cap + 1, Len(ids))

\* add_processed_ids, lines 114-119: the lists it may write
add_processed_ids(current_ids, signal_ids) ==
    { IF Len(new_ids) > LedgerCap THEN last_ids(new_ids, LedgerCap) ELSE new_ids :
        new_ids \in orderings(Range(current_ids \o signal_ids)) }

active_of(signals) == SelectSeq(signals, LAMBDA s : s.direction # "TERMINATE")
terminated_of(signals) == SelectSeq(signals, LAMBDA s : s.direction = "TERMINATE")

dicts(signals) == [ i \in 1..Len(signals) |-> to_dict(signals[i]) ]
symbols(signals) == [ i \in 1..Len(signals) |-> signals[i].symbol ]

\* snapshot_doc appending to the lists the file holds instead of replacing them
snapshot_doc_append(signals, now) ==
    LET old == files["current"].data
    IN  [ signals            |-> old.signals \o dicts(active_of(signals)),
          terminated_signals |-> old.terminated_signals \o dicts(terminated_of(signals)),
          last_update        |-> now,
          total_signals      |-> Len(old.signals) + Len(active_of(signals)),
          terminated_count   |-> Len(old.terminated_signals) + Len(terminated_of(signals)) ]

\* save_signals, lines 126-135: the Snapshot document
snapshot_doc(signals, now) ==
    [ signals            |-> dicts(active_of(signals)),
      terminated_signals |-> dicts(terminated_of(signals)),
      last_update        |-> now,
      total_signals      |-> Len(active_of(signals)),
      terminated_count   |-> Len(terminated_of(signals)) ]

\* save_signals, lines 139-145: the Status document
status_doc(signals, now) ==
    [ last_scrape        |-> now,
      active_signals     |-> Len(active_of(signals)),
      terminated_signals |-> Len(terminated_of(signals)),
      symbols_active     |-> symbols(active_of(signals)),
      symbols_terminated |-> symbols(terminated_of(signals)) ]

(***************************************************************************)
(* CryptetScraper (src/main.py:156-399).                                   *)
(***************************************************************************)
target_symbols ==
    { BTCUSDT, ETHUSDT, XRPUSDT, ADAUSDT, SOLUSDT, DOGEUSDT, LTCUSDT, TRXUSDT, LINKUSDT }

\* a card whose element went stale after the fetch: parse_signal_card raises
\* StaleElementReferenceException, which its except clause (line 386) lets through
StaleCard == [ stale |-> TRUE ]

raises(c) == "stale" \in DOMAIN c

\* extract_signals with the loop ended by the first card that raises
RECURSIVE extract_signals_abort(_, _)
extract_signals_abort(signal_cards, now) ==
    IF signal_cards = <<>> THEN <<>>
    ELSE IF raises(Head(signal_cards)) THEN <<>>
    ELSE parse_signal_card(Head(signal_cards), now) \o extract_signals_abort(Tail(signal_cards), now)

\* extract_signals, lines 265-285: a card that raises is skipped (lines 278-280)
RECURSIVE extract_signals(_, _)
extract_signals(signal_cards, now) ==
    IF signal_cards = <<>> THEN <<>>
    ELSE IF raises(Head(signal_cards)) THEN extract_signals(Tail(signal_cards), now)
    ELSE parse_signal_card(Head(signal_cards), now) \o extract_signals(Tail(signal_cards), now)

\* filter_targets with every symbol let through
filter_targets_all(signals) == signals

\* line 233
filter_targets(signals) == SelectSeq(signals, LAMBDA s : s.symbol \in target_symbols)

\* filter_new_signals with each new signal put in front of the list
filter_new_signals_reversed(signals, processed_ids) ==
    LET kept == SelectSeq(signals, LAMBDA s : s.signal_id \notin Range(processed_ids))
    IN  [ i \in 1..Len(kept) |-> kept[Len(kept) + 1 - i] ]

\* filter_new_signals, lines 390-399
filter_new_signals(signals, processed_ids) ==
    SelectSeq(signals, LAMBDA s : s.signal_id \notin Range(processed_ids))

\* stage_after with the ledger updated before save_signals
stage_after_ledger_first(s) ==
    CASE s = "filter"            -> "add_processed_ids"
      [] s = "add_processed_ids" -> "save_current"
      [] s = "save_current"      -> "save_status"
      [] s = "save_status"       -> "idle"

\* scrape_cycle, lines 237-251: the step that follows each step of a cycle
stage_after(s) ==
    CASE s = "filter"            -> "save_current"
      [] s = "save_current"      -> "save_status"
      [] s = "save_status"       -> "add_processed_ids"
      [] s = "add_processed_ids" -> "idle"

\* the file each step writes
file_of(s) ==
    CASE s = "save_current"      -> "current"
      [] s = "save_status"       -> "status"
      [] s = "add_processed_ids" -> "processed"

\* the documents the step may write (one but for the ledger's list(set))
docs_of(s) ==
    CASE s = "save_current" -> { snapshot_doc(new_signals, clock) }
      [] s = "save_status"  -> { status_doc(new_signals, clock) }
      [] s = "add_processed_ids" ->
         { [ processed_ids |-> ids ] :
             ids \in add_processed_ids(get_processed_ids(files["processed"]),
                                       [ i \in 1..Len(new_signals) |-> new_signals[i].signal_id ]) }

(***************************************************************************)
(* Inputs: the cards the page may show.                                    *)
(***************************************************************************)
Card(link, text, class, values) ==
    [ link |-> link, text |-> text, class |-> class, values |-> values ]

values_of(entry, tp, sl) == << val_label, val_label, val_label, entry, tp, sl >>

Links ==
    { <<>>, <<link_btc>>, <<link_btc_mixed>>, <<link_btc_spaced>>, <<link_eth>>,
      <<link_xrp>>, <<link_ada>>, <<link_dot>>, <<link_noslash>>, <<link_lower>> }

Texts ==
    { text_buy, text_sell, text_both, text_plain, text_terminiert,
      text_abgebrochen_buy, text_ausgefuehrt, text_closed_sell }

Classes == { class_plain, class_buy, class_sell, class_filled, class_buy_filled }

ValueLists ==
    { <<>>,
      << val_label, val_label, val_label, val_106050, val_108000 >>,
      values_of(val_106050, val_108000, val_104000),
      values_of(val_fmt, val_108000, val_104000),
      values_of(val_08151, val_085, val_079),
      values_of(val_2500, val_zero, val_500),
      values_of(val_zero_frac, val_085, val_079),
      values_of(val_500, val_2500, val_neg),
      values_of(val_50, val_500, val_2500),
      values_of(val_dots, val_500, val_2500),
      values_of(val_500, val_na, val_2500) }

\* the cards of the parser development
ParserCards ==
    { Card(l, t, c, v) : l \in Links, t \in Texts, c \in Classes, v \in ValueLists }

\* the cards a fetch of the cycle development is drawn from
PageCards ==
    { Card(<<link_btc>>, text_buy, class_buy, values_of(val_106050, val_108000, val_104000)),
      Card(<<link_xrp>>, text_terminiert, class_plain, <<>>),
      Card(<<link_dot>>, text_sell, class_sell, values_of(val_500, val_2500, val_50)),
      Card(<<link_eth>>, text_plain, class_plain, values_of(val_2500, val_2500, val_2500)) }

Fetches == UNION { [ 1..n -> PageCards ] : n \in 0..MaxCards }

\* the fetches of the two-pass development: a card may have gone stale
PassFetches == UNION { [ 1..n -> PageCards \cup {StaleCard} ] : n \in 0..MaxCards }

Times == Minutes \X Seconds

later(t, u) == t[1] > u[1] \/ (t[1] = u[1] /\ t[2] > u[2])

NoCard == Card(<<>>, <<>>, <<>>, <<>>)

\* scrape_cycle, line 229, tabulated: extract_signals of each fetch at each time
\* (@@ <<>> makes the table an explicit function, computed once)
extracted_signals_of ==
    [ signal_cards \in PassFetches |->
        [ now \in Times |-> extract_signals(signal_cards, now) ] @@ <<>> ] @@ <<>>

\* scrape_cycle, lines 229-233, tabulated: the allow-listed signals of each fetch
\* at each time
filtered_signals_of ==
    [ signal_cards \in PassFetches |->
        [ now \in Times |-> filter_targets(extract_signals(signal_cards, now)) ] @@ <<>> ] @@ <<>>

(***************************************************************************)
(* Logging (level INFO and above, lines 18-25).  A record is               *)
(* <<level, message, argument>>; the argument is a symbol, a tuple of      *)
(* counts, or <<>>.                                                        *)
(***************************************************************************)
records_of(level, message, args) ==
    [ i \in 1..Len(args) |-> <<level, message, args[i]>> ]

\* start, lines 190-192
start_records ==
    << <<"INFO", "STARTING Cryptet Signal Scraper", <<>>>>,
       <<"INFO", "Target URL", <<>>>>,
       <<"INFO", "Target Symbols", <<>>>> >>

\* scrape_cycle, lines 221-244 and 260, with line 316 of the parser: the
\* records of load, extract and filter
cycle_records(signals, filtered_signals, new) ==
    << <<"INFO", "Starting scrape cycle", <<>>>> >>
    \o records_of("INFO", "TERMINATED SIGNAL DETECTED", symbols(terminated_of(signals)))
    \o << <<"INFO", "Found total signals", <<Len(signals)>>>>,
          <<"INFO", "Filtered to relevant signals", <<Len(filtered_signals)>>>> >>
    \o IF new # <<>>
       THEN << <<"INFO", "NEW SIGNALS", <<Len(new)>>>> >> \o records_of("INFO", "signal", symbols(new))
       ELSE << <<"INFO", "No new signals found", <<>>>> >>

\* the records logged when a step of the cycle has completed: save_signals,
\* lines 148-152, and scrape_cycle, lines 254-257
step_records(s, signals) ==
    CASE s = "save_current" -> <<>>
      [] s = "save_status" ->
         << <<"INFO", "Saved", <<Len(active_of(signals)), Len(terminated_of(signals))>>>> >>
         \o records_of("CRITICAL", "TERMINATED", symbols(terminated_of(signals)))
      [] s = "add_processed_ids" ->
         IF terminated_of(signals) # <<>>
         THEN << <<"WARNING", "EMERGENCY", <<Len(terminated_of(signals))>>>> >>
              \o records_of("CRITICAL", "CLOSE NOW", symbols(terminated_of(signals)))
         ELSE <<>>

(***************************************************************************)
(* start() (src/main.py:188-217) and main (401-407).                       *)
(***************************************************************************)
\* start() has ended: it returned or propagated an exception
ended(r) == r \notin {"setup", "loop", "backoff"}

\* run_after with no except clause for Exception
run_after_uncaught(exception, where) ==
    IF exception = "KeyboardInterrupt"
    THEN IF where = "handler" THEN "KeyboardInterrupt" ELSE "return"
    ELSE "Exception"

\* the except clauses: where start() is after an exception raised in
\* scrape_cycle's try ("cycle", line 262), elsewhere in the try of the loop
\* ("loop", lines 208-213) or in the back-off wait of line 213 ("handler")
run_after(exception, where) ==
    IF exception = "KeyboardInterrupt"
    THEN IF where = "handler" THEN "KeyboardInterrupt" ELSE "return"
    ELSE IF where = "cycle" THEN "loop" ELSE "backoff"

\* release with driver.quit after the loop instead of in a finally clause
release_after_loop(d, r) ==
    IF ended(r) /\ r = "return" /\ d = "session" THEN "quit" ELSE d

\* the finally clause, lines 214-216: self.driver once start() is at r
release(d, r) ==
    IF ended(r) /\ d = "session" THEN "quit" ELSE d

\* lines 209 and 217: the records of the end of start()
end_records(r, d) ==
    (IF r = "return" THEN << <<"INFO", "Scraper stopped by user", <<>>>> >> ELSE <<>>)
    \o (IF d = "quit" THEN << <<"INFO", "Driver closed", <<>>>> >> ELSE <<>>)

\* main and line 407: the exit status of the process once start() has ended
\* (the interpreter ends with 130 on an uncaught KeyboardInterrupt and with 1
\* on any other uncaught exception)
exit_status(r) ==
    IF r = "return" THEN 0
    ELSE IF r = "KeyboardInterrupt" THEN 130
    ELSE 1

\* first_stage with save_signals called whatever new_signals holds
first_stage_always_saves(new) == stage_after("filter")

\* scrape_cycle, lines 239 and 259: the step that follows the filter
first_stage(new) == IF new # <<>> THEN stage_after("filter") ELSE "idle"

(***************************************************************************)
(* The cycle development: start() and scrape_cycle step by step, the clock *)
(* and an external reader of the documents.                                *)
(***************************************************************************)
\* the variables after construction, with the documents found on disk
Start(on_disk) ==
    /\ clock = <<0, 0>>
    /\ card = NoCard
    /\ parsed = <<>>
    /\ pstep = "off"
    /\ stage = "idle"
    /\ fh = "closed"
    /\ cards = <<>>
    /\ new_signals = <<>>
    /\ files = on_disk
    /\ atStart = on_disk
    /\ outcome = "none"
    /\ failedAt = "none"
    /\ evicted = FALSE
    /\ observed = "complete"
    /\ inserted = <<>>
    /\ slept = TRUE
    /\ run = "setup"
    /\ driver = "none"
    /\ log = <<>>

\* the ledgers an earlier run of the process may have left: none, or the
\* fingerprint of a BTC/USDT long signal of this minute
PriorLedgers ==
    { <<>>,
      << generate_id(BTCUSDT, "LONG", 106050 * PriceScale, <<0, 0>>) >> }

\* __init__ and _init_files keep the documents that exist already
Init ==
    \E ids \in PriorLedgers :
        Start([ init_files EXCEPT !["processed"].data.processed_ids = ids ])

\* start, lines 190-194, and setup_driver, lines 181-183: the session is acquired
SetupOk ==
    /\ run = "setup"
    /\ run' = "loop"
    /\ driver' = "session"
    /\ log' = start_records \o << <<"INFO", "Chrome Driver initialized successfully", <<>>>> >>
    /\ UNCHANGED <<clock, card, parsed, pstep, stage, fh, cards, new_signals, files, atStart,
                   outcome, failedAt, evicted, observed, inserted, slept>>

\* start, lines 190-196, and setup_driver, lines 184-186: webdriver.Chrome raises
SetupFails ==
    /\ run = "setup"
    /\ run' = "return"
    /\ driver' = release(driver, "return")
    /\ log' = start_records \o << <<"ERROR", "Chrome Driver failed", <<>>>>,
                                  <<"ERROR", "Driver setup failed", <<>>>> >>
    /\ UNCHANGED <<clock, card, parsed, pstep, stage, fh, cards, new_signals, files, atStart,
                   outcome, failedAt, evicted, observed, inserted, slept>>

\* start, lines 203-206: the normal wait between two cycles (18 to 22 minutes)
\* takes the clock to a later minute
Tick ==
    /\ run = "loop"
    /\ stage = "idle"
    /\ ~slept
    /\ \E t \in Times : t[1] > clock[1] /\ clock' = t
    /\ slept' = TRUE
    /\ log' = log \o << <<"INFO", "Next scrape in", <<>>>> >>
    /\ UNCHANGED <<card, parsed, pstep, stage, fh, cards, new_signals, files, atStart,
                   outcome, failedAt, evicted, observed, inserted, run, driver>>

\* scrape_cycle, lines 221-244 and 259-260: load, extract, filter
Scrape ==
    /\ run = "loop"
    /\ stage = "idle"
    /\ slept
    /\ slept' = FALSE
    /\ \E signal_cards \in Fetches :
         LET signals          == extracted_signals_of[signal_cards][clock]
             filtered_signals == filtered_signals_of[signal_cards][clock]
             new              == filter_new_signals(filtered_signals,
                                                    get_processed_ids(files["processed"]))
         IN  /\ parsed' = signals
             /\ new_signals' = new
             /\ stage' = first_stage(new)
             /\ outcome' = IF new # <<>> THEN "running" ELSE "no_new"
             /\ log' = cycle_records(signals, filtered_signals, new)
    /\ atStart' = files
    /\ evicted' = FALSE
    /\ failedAt' = "none"
    /\ UNCHANGED <<clock, card, pstep, fh, cards, files, observed, inserted, run, driver>>

\* extract_signals, lines 270 and 282-285: find_elements raises, the cycle goes
\* on with no signal
ExtractFails ==
    /\ run = "loop"
    /\ stage = "idle"
    /\ slept
    /\ slept' = FALSE
    /\ parsed' = <<>>
    /\ new_signals' = <<>>
    /\ stage' = first_stage(<<>>)
    /\ outcome' = "no_new"
    /\ log' = << <<"INFO", "Starting scrape cycle", <<>>>>,
                 <<"ERROR", "Signal extraction failed", <<>>>> >>
               \o SubSeq(cycle_records(<<>>, <<>>, <<>>), 2, 4)
    /\ atStart' = files
    /\ evicted' = FALSE
    /\ failedAt' = "none"
    /\ UNCHANGED <<clock, card, pstep, fh, cards, files, observed, inserted, run, driver>>

\* scrape_cycle, lines 225 and 262-263: driver.get raises
LoadFails ==
    /\ run = "loop"
    /\ stage = "idle"
    /\ slept
    /\ slept' = FALSE
    /\ parsed' = <<>>
    /\ new_signals' = <<>>
    /\ atStart' = files
    /\ evicted' = FALSE
    /\ outcome' = "failed"
    /\ failedAt' = "load"
    /\ run' = run_after("Exception", "cycle")
    /\ driver' = release(driver, run')
    /\ log' = << <<"INFO", "Starting scrape cycle", <<>>>>,
                 <<"ERROR", "Scrape cycle failed", <<>>>> >> \o end_records(run', driver')
    /\ UNCHANGED <<clock, card, pstep, stage, fh, cards, files, observed, inserted>>

\* _write_json, line 104: open(filepath, 'w') truncates the file
WriteOpen ==
    /\ run = "loop"
    /\ stage \in {"save_current", "save_status", "add_processed_ids"}
    /\ fh = "closed"
    /\ \E doc \in docs_of(stage) :
         files' = [ files EXCEPT ![file_of(stage)] = [ complete |-> FALSE, data |-> doc ] ]
    /\ fh' = "open"
    /\ evicted' = IF stage = "add_processed_ids"
                  THEN Cardinality(Range(get_processed_ids(files["processed"]))
                                   \cup { new_signals[i].signal_id : i \in 1..Len(new_signals) })
                       > LedgerCap
                  ELSE evicted
    /\ UNCHANGED <<clock, card, parsed, pstep, stage, cards, new_signals, atStart,
                   outcome, failedAt, observed, inserted, slept, run, driver, log>>

\* _write_json, line 105: json.dump has written the whole document; the step returns
WriteDump ==
    /\ run = "loop"
    /\ fh = "open"
    /\ files' = [ files EXCEPT ![file_of(stage)].complete = TRUE ]
    /\ fh' = "closed"
    /\ stage' = stage_after(stage)
    /\ outcome' = IF stage_after(stage) = "idle" THEN "done" ELSE outcome
    /\ log' = log \o step_records(stage, new_signals)
    /\ UNCHANGED <<clock, card, parsed, pstep, cards, new_signals, atStart,
                   failedAt, evicted, observed, inserted, slept, run, driver>>

\* _write_json, line 104: open raises (the file is untouched); lines 262-263
OpenFails ==
    /\ run = "loop"
    /\ stage \in {"save_current", "save_status", "add_processed_ids"}
    /\ fh = "closed"
    /\ stage' = "idle"
    /\ outcome' = "failed"
    /\ failedAt' = stage
    /\ run' = run_after("Exception", "cycle")
    /\ driver' = release(driver, run')
    /\ log' = log \o << <<"ERROR", "Scrape cycle failed", <<>>>> >> \o end_records(run', driver')
    /\ UNCHANGED <<clock, card, parsed, pstep, fh, cards, new_signals, files, atStart,
                   evicted, observed, inserted, slept>>

\* _write_json, line 105: json.dump raises part-way (the file stays cut); lines 262-263
DumpFails ==
    /\ run = "loop"
    /\ fh = "open"
    /\ fh' = "closed"
    /\ stage' = "idle"
    /\ outcome' = "failed"
    /\ failedAt' = stage
    /\ run' = run_after("Exception", "cycle")
    /\ driver' = release(driver, run')
    /\ log' = log \o << <<"ERROR", "Scrape cycle failed", <<>>>> >> \o end_records(run', driver')
    /\ UNCHANGED <<clock, card, parsed, pstep, cards, new_signals, files, atStart,
                   evicted, observed, inserted, slept>>

\* start, lines 211-212: an exception raised in the loop outside scrape_cycle's
\* own try (line 221, lines 204-205) reaches the error branch
LoopRaises ==
    /\ run = "loop"
    /\ stage = "idle"
    /\ run' = run_after("Exception", "loop")
    /\ driver' = release(driver, run')
    /\ log' = log \o << <<"ERROR", "Scraping error", <<>>>> >> \o end_records(run', driver')
    /\ UNCHANGED <<clock, card, parsed, pstep, stage, fh, cards, new_signals, files, atStart,
                   outcome, failedAt, evicted, observed, inserted, slept>>

\* start, line 213: the wait of the error branch (5 minutes) takes the clock to
\* a later minute; the loop then starts a cycle
BackOff ==
    /\ run = "backoff"
    /\ \E t \in Times : t[1] > clock[1] /\ clock' = t
    /\ run' = "loop"
    /\ slept' = TRUE
    /\ UNCHANGED <<card, parsed, pstep, stage, fh, cards, new_signals, files, atStart,
                   outcome, failedAt, evicted, observed, inserted, driver, log>>

\* KeyboardInterrupt: in a cycle or in the normal wait (lines 208-210), or in
\* the wait of the error branch (line 213, not caught); then lines 214-217.
\* A file being written is closed as it is.
Interrupt ==
    /\ run \in {"loop", "backoff"}
    /\ run' = run_after("KeyboardInterrupt",
                        IF run = "backoff" THEN "handler"
                        ELSE IF stage = "idle" /\ ~slept THEN "loop" ELSE "cycle")
    /\ driver' = release(driver, run')
    /\ log' = log \o end_records(run', driver')
    /\ fh' = "closed"
    /\ UNCHANGED <<clock, card, parsed, pstep, stage, cards, new_signals, files, atStart,
                   outcome, failedAt, evicted, observed, inserted, slept>>

\* the external consumer reads one of the documents
Read ==
    /\ \E f \in FileNames : observed' = IF files[f].complete THEN "complete" ELSE "partial"
    /\ UNCHANGED <<clock, card, parsed, pstep, stage, fh, cards, new_signals, files,
                   atStart, outcome, failedAt, evicted, inserted, slept, run, driver, log>>

Next ==
    \/ SetupOk
    \/ SetupFails
    \/ Tick
    \/ Scrape
    \/ ExtractFails
    \/ LoadFails
    \/ WriteOpen
    \/ WriteDump
    \/ OpenFails
    \/ DumpFails
    \/ LoopRaises
    \/ BackOff
    \/ Interrupt
    \/ Read

Spec == Init /\ [][Next]_vars

(***************************************************************************)
(* The parser development: parse_signal_card applied to one card, and the  *)
(* rest of the pipeline (allow-list, dedup, save_signals) applied to its   *)
(* result.                                                                 *)
(***************************************************************************)
InitParse ==
    /\ clock \in { <<0, 0>>, <<1, 30>> }
    /\ card \in ParserCards
    /\ parsed = <<>>
    /\ pstep = "input"
    /\ stage = "idle"
    /\ fh = "closed"
    /\ cards = <<>>
    /\ new_signals = <<>>
    /\ files = init_files
    /\ atStart = init_files
    /\ outcome = "none"
    /\ failedAt = "none"
    /\ evicted = FALSE
    /\ observed = "complete"
    /\ inserted = <<>>
    /\ slept = TRUE
    /\ run = "loop"
    /\ driver = "session"
    /\ log = <<>>

\* parse_signal_card(card)
ParseCard ==
    /\ pstep = "input"
    /\ parsed' = parse_signal_card(card, clock)
    /\ pstep' = "parsed"
    /\ UNCHANGED <<clock, card, stage, fh, cards, new_signals, files, atStart,
                   outcome, failedAt, evicted, observed, inserted, slept,
                   run, driver, log>>

\* scrape_cycle, lines 233-247, on the parsed signal: save_signals writes both documents
SaveParsed ==
    /\ pstep = "parsed"
    /\ LET new == filter_new_signals(filter_targets(parsed),
                                     get_processed_ids(files["processed"]))
       IN  /\ new # <<>>
           /\ new_signals' = new
           /\ files' = [ files EXCEPT
                           !["current"] = [ complete |-> TRUE, data |-> snapshot_doc(new, clock) ],
                           !["status"]  = [ complete |-> TRUE, data |-> status_doc(new, clock) ] ]
    /\ pstep' = "saved"
    /\ UNCHANGED <<clock, card, parsed, stage, fh, cards, atStart,
                   outcome, failedAt, evicted, observed, inserted, slept,
                   run, driver, log>>

NextParse ==
    \/ ParseCard
    \/ SaveParsed

SpecParse == InitParse /\ [][NextParse]_vars

(***************************************************************************)
(* The ledger development: add_processed_ids called with fingerprints that *)
(* were never inserted before.                                             *)
(***************************************************************************)
LedgerPool ==
    { generate_id(s, "TERMINATE", 0, <<0, 0>>) :
        s \in { BTCUSDT, ETHUSDT, XRPUSDT, ADAUSDT, SOLUSDT } }

Batches ==
    UNION { { b \in [ 1..n -> LedgerPool ] : \A i, j \in 1..n : i # j => b[i] # b[j] } :
            n \in 1..MaxBatch }

\* add_processed_ids(signal_ids), lines 112-121
AddProcessedIds ==
    /\ \E signal_ids \in Batches :
         /\ Range(signal_ids) \cap Range(inserted) = {}
         /\ \E new_ids \in add_processed_ids(get_processed_ids(files["processed"]), signal_ids) :
              files' = [ files EXCEPT !["processed"] =
                           [ complete |-> TRUE, data |-> [ processed_ids |-> new_ids ] ] ]
         /\ inserted' = inserted \o signal_ids
    /\ UNCHANGED <<clock, card, parsed, pstep, stage, fh, cards, new_signals, atStart,
                   outcome, failedAt, evicted, observed, slept,
                   run, driver, log>>

NextLedger == AddProcessedIds

SpecLedger == Start(init_files) /\ [][NextLedger]_vars

(***************************************************************************)
(* The two-pass development: one card set fed twice through extraction,    *)
(* the allow-list and filter_new_signals, the ids of the first pass added  *)
(* to the ledger before the second.                                        *)
(***************************************************************************)
InitPass ==
    /\ clock = <<0, 0>>
    /\ card = NoCard
    /\ parsed = <<>>
    /\ pstep = "pass1"
    /\ stage = "idle"
    /\ fh = "closed"
    /\ cards \in PassFetches
    /\ new_signals = <<>>
    /\ files = init_files
    /\ atStart = init_files
    /\ outcome = "none"
    /\ failedAt = "none"
    /\ evicted = FALSE
    /\ observed = "complete"
    /\ inserted = <<>>
    /\ slept = TRUE
    /\ run = "loop"
    /\ driver = "session"
    /\ log = <<>>

\* lines 229-237, then add_processed_ids of the new ids (lines 250-251)
FirstPass ==
    /\ pstep = "pass1"
    /\ LET new == filter_new_signals(filtered_signals_of[cards][clock],
                                     get_processed_ids(files["processed"]))
           new_ids == [ i \in 1..Len(new) |-> new[i].signal_id ]
       IN  /\ new_signals' = new
           /\ parsed' = extracted_signals_of[cards][clock]
           /\ inserted' = new_ids
           /\ IF new = <<>> THEN UNCHANGED files
              ELSE \E ids \in add_processed_ids(get_processed_ids(files["processed"]), new_ids) :
                     files' = [ files EXCEPT !["processed"] =
                                  [ complete |-> TRUE, data |-> [ processed_ids |-> ids ] ] ]
    /\ pstep' = "between"
    /\ UNCHANGED <<clock, card, stage, fh, cards, atStart,
                   outcome, failedAt, evicted, observed, slept,
                   run, driver, log>>

\* the time between the two passes: none, seconds or minutes
Between ==
    /\ pstep = "between"
    /\ \E t \in Times : ~later(clock, t) /\ clock' = t
    /\ pstep' = "pass2"
    /\ UNCHANGED <<card, parsed, stage, fh, cards, new_signals, files, atStart,
                   outcome, failedAt, evicted, observed, inserted, slept,
                   run, driver, log>>

\* lines 229-237 again, on the same cards
SecondPass ==
    /\ pstep = "pass2"
    /\ parsed' = extracted_signals_of[cards][clock]
    /\ new_signals' = filter_new_signals(filtered_signals_of[cards][clock],
                                         get_processed_ids(files["processed"]))
    /\ pstep' = "passed"
    /\ UNCHANGED <<clock, card, stage, fh, cards, files, atStart,
                   outcome, failedAt, evicted, observed, inserted, slept,
                   run, driver, log>>

NextPass ==
    \/ FirstPass
    \/ Between
    \/ SecondPass

SpecPass == InitPass /\ [][NextPass]_vars

(***************************************************************************)
(* Properties.                                                             *)
(***************************************************************************)
ledger_ids(file) == Range(get_processed_ids(file))

ids_of(signals) == [ i \in 1..Len(signals) |-> signals[i].signal_id ]

\* C1 (SpecLedger): the ledger never holds more than the cap, and once more
\* fingerprints than the cap have been inserted it holds exactly the most
\* recently inserted ones.
C1_LedgerKeepsMostRecent ==
    LET ids == get_processed_ids(files["processed"])
    IN  /\ Len(ids) <= LedgerCap
        /\ Len(inserted) > LedgerCap =>
              Range(ids) = Range(last_ids(inserted, LedgerCap))

\* C2 (SpecPass): the second pass of the same card set, made after the ids of the
\* first pass were added to the ledger, yields no new signal.
C2_SecondPassIsEmpty ==
    pstep = "passed" => new_signals = <<>>

C4_ReaderNeverSeesPartial ==
    observed # "partial"

\* C5 (Spec): when a write of a cycle has failed, none of the three documents
\* retains a change made by that cycle.
C5_NoPartialCommit ==
    (stage = "idle" /\ outcome = "failed") => files = atStart

\* C6 (Spec): the ledger is written only after save_signals has completed
\* (both documents written in full with this cycle's signals), and a cycle
\* that fails before that leaves the ledger as it was, without the
\* fingerprints of its new signals.
C6_LedgerAfterPersistence ==
    /\ stage \in {"save_current", "save_status"} =>
          files["processed"] = atStart["processed"]
    /\ stage = "add_processed_ids" =>
          /\ files["current"].complete
          /\ files["current"].data.signals = dicts(active_of(new_signals))
          /\ files["current"].data.terminated_signals = dicts(terminated_of(new_signals))
          /\ files["status"].complete
          /\ files["status"].data.symbols_active = symbols(active_of(new_signals))
          /\ files["status"].data.symbols_terminated = symbols(terminated_of(new_signals))
    /\ (stage = "idle" /\ outcome = "failed"
          /\ failedAt \in {"load", "save_current", "save_status"}) =>
          /\ files["processed"] = atStart["processed"]
          /\ Range(ids_of(new_signals)) \cap ledger_ids(files["processed"]) = {}

\* C6 witness: a second cycle with new signals failed in save_signals (the
\* Status write) while the ledger held fingerprints of the first.
C6_Witness ==
    /\ stage = "idle"
    /\ outcome = "failed"
    /\ failedAt = "save_status"
    /\ new_signals # <<>>
    /\ ledger_ids(files["processed"]) # {}

\* C7 (Spec): every fingerprint in the ledger before a cycle is in it after the
\* cycle, unless the cycle's add_processed_ids cut the list to the cap.
C7_LedgerOnlyGrows ==
    stage = "idle" =>
        \/ ledger_ids(atStart["processed"]) \subseteq ledger_ids(files["processed"])
        \/ evicted

\* the symbol a link text of the inputs is accepted as (<<>>: the card is rejected)
expected_symbol(link) ==
    IF link \in { <<link_btc>>, <<link_btc_mixed>>, <<link_btc_spaced>> } THEN <<BTCUSDT>>
    ELSE IF link = <<link_eth>> THEN <<ETHUSDT>>
    ELSE IF link = <<link_xrp>> THEN <<XRPUSDT>>
    ELSE IF link = <<link_ada>> THEN <<ADAUSDT>>
    ELSE IF link = <<link_dot>> THEN << <<"D", "O", "T", "U", "S", "D", "T">> >>
    ELSE <<>>

\* the texts of the inputs that hold a termination keyword in some case
TerminationTexts ==
    { text_terminiert, text_abgebrochen_buy, text_ausgefuehrt, text_closed_sell }

\* the class strings of the inputs that hold 'filled' in some case
FilledClasses == { class_filled, class_buy_filled }

\* C8 (SpecParse): a card with an accepted symbol whose text holds a termination
\* keyword, or whose class holds 'filled', parses to a TERMINATE signal with
\* zero prices, whatever its buy/sell tag, wording and price values.
C8_TerminationPrecedence ==
    ( /\ pstep # "input"
      /\ expected_symbol(card.link) # <<>>
      /\ (card.text \in TerminationTexts \/ card.class \in FilledClasses) )
    => /\ Len(parsed) = 1
       /\ parsed[1].symbol = expected_symbol(card.link)[1]
       /\ parsed[1].direction = "TERMINATE"
       /\ parsed[1].entry_price = 0
       /\ parsed[1].take_profit = 0
       /\ parsed[1].stop_loss = 0

\* C8 witness: a card with a buy tag, buy wording and three good prices whose
\* text also says 'Abgebrochen' has parsed to TERMINATE.
C8_Witness ==
    /\ pstep = "parsed"
    /\ card.link = <<link_btc>>
    /\ card.text = text_abgebrochen_buy
    /\ card.class = class_buy
    /\ card.values = values_of(val_106050, val_108000, val_104000)
    /\ Len(parsed) = 1
    /\ parsed[1].direction = "TERMINATE"

price_invariant(s) ==
    /\ s.direction \in {"LONG", "SHORT", "TERMINATE"}
    /\ s.direction \in {"LONG", "SHORT"} =>
          s.entry_price > 0 /\ s.take_profit > 0 /\ s.stop_loss > 0
    /\ s.direction = "TERMINATE" =>
          s.entry_price = 0 /\ s.take_profit = 0 /\ s.stop_loss = 0

\* C9 (SpecParse): every signal parse_signal_card accepts, and every record of
\* the Snapshot, has three strictly positive prices when LONG or SHORT and
\* three zero prices when TERMINATE.
C9_PriceInvariant ==
    /\ \A i \in 1..Len(parsed) : price_invariant(parsed[i])
    /\ \A i \in 1..Len(files["current"].data.signals) :
          /\ price_invariant(files["current"].data.signals[i])
          /\ files["current"].data.signals[i].direction # "TERMINATE"
    /\ \A i \in 1..Len(files["current"].data.terminated_signals) :
          /\ price_invariant(files["current"].data.terminated_signals[i])
          /\ files["current"].data.terminated_signals[i].direction = "TERMINATE"

\* C9 witness: a LONG signal with entry 0.8151 has reached the Snapshot.
C9_Witness ==
    /\ pstep = "saved"
    /\ Len(files["current"].data.signals) = 1
    /\ files["current"].data.signals[1].direction = "LONG"
    /\ files["current"].data.signals[1].entry_price = 8151
    /\ files["current"].data.signals[1].stop_loss = 7900

\* C10 (Spec): the signals a cycle passes on to persistence never hold two
\* records with the same signal_id.
C10_NoDuplicateIds ==
    \A i, j \in 1..Len(new_signals) :
        i # j => new_signals[i].signal_id # new_signals[j].signal_id

\* the k-th smallest index of a set of indices
kth(S, k) == CHOOSE i \in S : Cardinality({ j \in S : j < i }) = k - 1

\* C11 (Spec): the new signals of a cycle are exactly the candidates (the
\* allow-listed signals of the fetch) whose signal_id is not in the ledger
\* read at the start of the cycle, each as often as it occurs and in the
\* order of the candidates.
C11_ExactSubsequence ==
    LET candidates == filter_targets(parsed)
        keep == { i \in 1..Len(candidates) :
                    candidates[i].signal_id \notin ledger_ids(atStart["processed"]) }
    IN  /\ Len(new_signals) = Cardinality(keep)
        /\ \A k \in 1..Len(new_signals) : new_signals[k] = candidates[kth(keep, k)]

\* C11 witness: of two candidates the first was in the ledger and the second
\* was returned.
C11_Witness ==
    /\ stage = "save_current"
    /\ Len(filter_targets(parsed)) = 2
    /\ filter_targets(parsed)[1].signal_id \in ledger_ids(atStart["processed"])
    /\ new_signals = << filter_targets(parsed)[2] >>

\* the symbols of the records of a list of the Snapshot
symbols_in(records) == { records[i].symbol : i \in 1..Len(records) }

\* C12 (Spec): a signal whose symbol is not in the allow-list is never among the
\* new signals of a cycle, never in the Snapshot or the Status document (as
\* written or as being written), and its fingerprint is never in the ledger.
C12_AllowList ==
    /\ symbols_in(new_signals) \subseteq target_symbols
    /\ symbols_in(files["current"].data.signals) \subseteq target_symbols
    /\ symbols_in(files["current"].data.terminated_signals) \subseteq target_symbols
    /\ "symbols_active" \in DOMAIN files["status"].data =>
          /\ Range(files["status"].data.symbols_active) \subseteq target_symbols
          /\ Range(files["status"].data.symbols_terminated) \subseteq target_symbols
    /\ \A id \in Range(files["processed"].data.processed_ids) : id[1] \in target_symbols

\* C12 witness: a cycle whose fetch held a validly parsed DOT/USDT signal beside
\* an allow-listed one has written all three documents.
C12_Witness ==
    /\ stage = "idle"
    /\ outcome = "done"
    /\ \E i \in 1..Len(parsed) :
          /\ parsed[i].symbol = <<"D", "O", "T", "U", "S", "D", "T">>
          /\ parsed[i].direction = "SHORT"
          /\ parsed[i].entry_price > 0
    /\ new_signals # <<>>
    /\ files["current"].data.last_update = clock

logged(level, message) == \E i \in 1..Len(log) : log[i][1] = level /\ log[i][2] = message

\* C13 (Spec): a failure inside a cycle (the page load or a write raising) is
\* logged and leaves start() in its loop with the cycle over, ready for the
\* wait and the next cycle; extraction raising is logged and the cycle goes
\* on; start() ends only after a setup failure or a user interrupt.
C13_CycleFailuresAreRecovered ==
    /\ outcome = "failed" => logged("ERROR", "Scrape cycle failed")
    /\ (outcome = "failed" /\ ~logged("INFO", "Scraper stopped by user")) =>
          /\ run \in {"loop", "backoff", "KeyboardInterrupt"}
          /\ stage = "idle"
          /\ fh = "closed"
    /\ logged("ERROR", "Signal extraction failed") => outcome = "no_new"
    /\ ended(run) =>
          \/ driver = "none" /\ logged("ERROR", "Driver setup failed")
          \/ logged("INFO", "Scraper stopped by user")
          \/ run = "KeyboardInterrupt"

\* C13 witness: a cycle failed in a write, the normal wait followed, and start()
\* is in its loop about to begin the next cycle.
C13_Witness ==
    /\ outcome = "failed"
    /\ failedAt = "save_status"
    /\ run = "loop"
    /\ stage = "idle"
    /\ slept
    /\ clock[1] > 0
    /\ logged("INFO", "Next scrape in")

\* C14 (Spec): once the session is acquired, start() never ends (by returning
\* or by propagating an exception) with the session still held: driver.quit
\* has been called and 'Driver closed' is logged.
C14_DriverReleased ==
    /\ driver = "session" => run \in {"loop", "backoff"}
    /\ (ended(run) /\ driver # "none") =>
          /\ driver = "quit"
          /\ logged("INFO", "Driver closed")
    /\ driver = "quit" => ended(run)

\* C14 witness: a user interrupt during the wait of the error branch, which no
\* except clause catches, has ended start() with the session released.
C14_Witness ==
    /\ run = "KeyboardInterrupt"
    /\ driver = "quit"
    /\ logged("ERROR", "Scraping error")

\* C15 (Spec): when setup_driver has failed, the failure is logged, no cycle
\* has run, start() has ended and the exit status of the process is not zero.
C15_SetupFailureExitsNonZero ==
    logged("ERROR", "Chrome Driver failed") =>
        /\ logged("ERROR", "Driver setup failed")
        /\ ended(run)
        /\ driver = "none"
        /\ outcome = "none"
        /\ exit_status(run) # 0

\* C16 (Spec): when a cycle is over, however it ended, every TERMINATE signal
\* the parser produced for it has a CRITICAL record with its symbol among
\* the records of that cycle.
C16_TerminationsLoggedCritical ==
    (stage = "idle" /\ outcome \in {"done", "no_new", "failed"}) =>
        \A i \in 1..Len(parsed) :
            parsed[i].direction = "TERMINATE" =>
                \E j \in 1..Len(log) :
                    log[j][1] = "CRITICAL" /\ log[j][3] = parsed[i].symbol

\* the direction the claim gives a card of the inputs by its class string and
\* its wording ("NONE": the parser returns none)
expected_direction(c) ==
    IF c.class = class_buy THEN "LONG"
    ELSE IF c.class = class_sell THEN "SHORT"
    ELSE IF c.text = text_buy THEN "LONG"
    ELSE IF c.text = text_sell THEN "SHORT"
    ELSE "NONE"

\* C17 (SpecParse): a card with an accepted symbol and no termination mark
\* parses, when it parses, to the direction given by its buy or sell tag, else
\* by its wording (buy keyword only: LONG, sell keyword only: SHORT); with
\* three good prices it does parse, unless tags and wording give no direction.
C17_DirectionResolution ==
    ( /\ pstep # "input"
      /\ expected_symbol(card.link) # <<>>
      /\ card.text \notin TerminationTexts
      /\ card.class \notin FilledClasses )
    => /\ parsed # <<>> => parsed[1].direction = expected_direction(card)
       /\ expected_direction(card) = "NONE" => parsed = <<>>
       /\ ( /\ expected_direction(card) # "NONE"
            /\ card.values = values_of(val_106050, val_108000, val_104000) )
          => parsed # <<>>

\* C18 (Spec): when a cycle has failed as a whole, the wait that follows it
\* (the step that takes the clock on) is the wait of the error branch of
\* start(), not the normal interval.
C18_BackOffAfterFailure ==
    [][ (outcome = "failed" /\ stage = "idle" /\ ~slept /\ clock' # clock)
            => run = "backoff" ]_vars

\* C19 (SpecPass): extract_signals returns exactly the signals of the cards of
\* the fetch that neither raise nor are rejected, one per such card and in
\* page order; the cycle goes on and its allow-listed signals reach the ledger.
C19_CardFailureIsolation ==
    pstep \in {"between", "passed"} =>
        LET good == { i \in 1..Len(cards) :
                        /\ ~raises(cards[i])
                        /\ parse_signal_card(cards[i], clock) # <<>> }
        IN  /\ Len(parsed) = Cardinality(good)
            /\ \A k \in 1..Len(parsed) :
                  parsed[k] = parse_signal_card(cards[kth(good, k)], clock)[1]
            /\ pstep = "between" =>
                  Range(ids_of(filter_targets(parsed))) \subseteq ledger_ids(files["processed"])

\* C19 witness: the first card of a fetch raised, the second was a terminated
\* XRP/USDT card, and extract_signals returned the signal of the second.
C19_Witness ==
    /\ pstep = "between"
    /\ Len(cards) = 2
    /\ raises(cards[1])
    /\ Len(parsed) = 1
    /\ parsed[1].symbol = XRPUSDT
    /\ parsed[1].signal_id \in ledger_ids(files["processed"])

\* C20 (Spec): a cycle with no new signal starts no write, and when it is over
\* the three documents are as they were when it began.
C20_NoNewSignalNoWrite ==
    new_signals = <<>> =>
        /\ stage = "idle"
        /\ fh = "closed"
        /\ files = atStart

\* C20 witness: a cycle whose only candidate was already in the ledger is over.
C20_Witness ==
    /\ outcome = "no_new"
    /\ ~slept
    /\ Len(filter_targets(parsed)) = 1
    /\ filter_targets(parsed)[1].signal_id \in ledger_ids(files["processed"])
    /\ new_signals = <<>>
====
